---- MODULE Spec2Model ----
(***************************************************************************)
(* Model of app.py: the contact-form backend.                              *)
(*                                                                         *)
(*   POST /submit-contact  submit_contact()         lines  98-159          *)
(*   background thread     send_email_background()  lines  43-82           *)
(*   GET  /contacts        list_contacts()          lines 163-175          *)
(*                                                                         *)
(* A request runs submit_contact up to email_thread.start() as one step    *)
(* (the only state it shares with other requests is the database, whose    *)
(* commit is atomic), and returns its 200 response in a second step, so    *)
(* that the notifier thread runs concurrently with the rest of the         *)
(* handler and with the other requests.                                    *)
(*                                                                         *)
(* Spec    follows MaxRequests concurrent requests that send one of three  *)
(*         bodies (FewBodies).                                             *)
(* SpecOne follows one request with every body (Bodies), every environment *)
(*         and every outcome of the database, the thread start and the     *)
(*         email.                                                          *)
(***************************************************************************)
EXTENDS Integers, Sequences, FiniteSets, TLC

\* ------------------------------------------------------------------ bounds
MaxRequests == 2
MaxClock == 1

Requests == 1..MaxRequests

\* ------------------------------------------------------- JSON values, text
\* Text is a sequence of one-character strings, so that trimming is computed.
SP == " "
JStr(s) == [t |-> "str", v |-> s]
JNull == [t |-> "null", v |-> <<>>]

EmptyText == <<>>
BlankText == <<SP>>
NA == <<"N", "/", "A">>
Unknown == <<"U", "n", "k", "n", "o", "w", "n">>
NoneText == <<"N", "o", "n", "e">>

\* Python's str.strip(): leading and trailing whitespace removed.
RECURSIVE LStrip(_)
LStrip(s) == IF s # <<>> /\ Head(s) = SP THEN LStrip(Tail(s)) ELSE s

RECURSIVE RStrip(_)
RStrip(s) == IF s # <<>> /\ s[Len(s)] = SP THEN RStrip(SubSeq(s, 1, Len(s) - 1)) ELSE s

StripNothing(s) == s

Strip(s) == RStrip(LStrip(s))

\* dict.get(key, default) on the parsed JSON object.
Get(data, key, default) == IF key \in DOMAIN data THEN data[key] ELSE default

\* os.getenv(name, default).
Getenv(e, name, default) == IF name \in DOMAIN e THEN e[name] ELSE default

\* --------------------------------------------------------------- the inputs
RequiredFields == {"name", "email", "message"}
OptionalFields == {"phone", "company", "service"}
Fields == RequiredFields \cup OptionalFields

\* What a client may send for a field: nothing (the key is absent), an
\* empty or blank string, a padded string, or a JSON value that is not a
\* string.
Absent == [t |-> "absent", v |-> <<>>]
Padded(c) == JStr(<<SP, c, SP>>)
RequiredValues == {Absent, JStr(EmptyText), JStr(BlankText), Padded("a"), JNull}
OptionalValues == {Absent, JStr(EmptyText), Padded("b"), JNull}

Choices ==
    {[f \in Fields |-> IF f \in RequiredFields THEN req[f] ELSE opt[f]] :
        req \in [RequiredFields -> RequiredValues],
        opt \in [OptionalFields -> OptionalValues]}

MkData(c) == [f \in {g \in Fields : c[g] # Absent} |-> c[f]]

Object(c) == [kind |-> "object", data |-> MkData(c)]

\* request.get_json(): a JSON object, or anything else (another JSON value,
\* None, or an exception raised by get_json itself).
NotAnObject == [kind |-> "other", data |-> [f \in {} |-> JNull]]
NoRequest == [kind |-> "none", data |-> [f \in {} |-> JNull]]

\* Every body: used where one request is followed through the handler.
Bodies == {Object(c) : c \in Choices} \cup {NotAnObject}

\* The bodies concurrent clients send: a valid one (padded name, email,
\* message and phone, an empty service, no company), the same with a null
\* phone, and one with a blank name.
ValidBody ==
    Object([f \in Fields |->
        IF f \in RequiredFields THEN Padded("a")
        ELSE IF f = "phone" THEN Padded("b")
        ELSE IF f = "service" THEN JStr(EmptyText) ELSE Absent])
NullPhoneBody ==
    Object([f \in Fields |->
        IF f \in RequiredFields THEN Padded("a")
        ELSE IF f = "phone" THEN JNull
        ELSE IF f = "service" THEN JStr(EmptyText) ELSE Absent])
BlankNameBody ==
    Object([f \in Fields |->
        IF f = "name" THEN JStr(BlankText)
        ELSE IF f \in RequiredFields THEN Padded("a") ELSE Absent])
FewBodies == {ValidBody, NullPhoneBody, BlankNameBody}

\* random.choices(ascii_uppercase + digits, k=4)
UniqueIds == {"A1B2", "ZZ99"}

Envs ==
    {[n \in ns |-> IF n = "RESEND_API_KEY" THEN "re_12345678" ELSE "ops@example.com"] :
        ns \in SUBSET {"RESEND_API_KEY", "NOTIFY_EMAIL"}}
DefaultEnv == [n \in {"RESEND_API_KEY"} |-> "re_12345678"]

\* ---------------------------------------------------------------- the state
VARIABLES
    env,        \* the process environment (RESEND_API_KEY, NOTIFY_EMAIL)
    now,        \* datetime.utcnow()
    store,      \* the rows of the contact table
    nextId,     \* the next primary key
    payload,    \* request -> the body it was sent with
    pc,         \* request -> "idle", "started" (thread started, not yet returned), "done"
    resp,       \* request -> the response returned
    dbLog,      \* request -> what the handler logged about the save
    threads,    \* the email threads started, in start order
    listing     \* the last response of GET /contacts

vars == <<env, now, store, nextId, payload, pc, resp, dbLog, threads, listing>>

NoResponse == [status |-> 0, success |-> FALSE, message |-> ""]

RequiredMessage(field) == "\"" \o field \o "\" is required."

\* The state after startup (db.create_all() on an empty database).
Started ==
    /\ now = 0
    /\ store = {}
    /\ nextId = 1
    /\ payload = [r \in Requests |-> NoRequest]
    /\ pc = [r \in Requests |-> "idle"]
    /\ resp = [r \in Requests |-> NoResponse]
    /\ dbLog = [r \in Requests |-> "none"]
    /\ threads = <<>>
    /\ listing = <<>>

Init == env = DefaultEnv /\ Started

InitOne == env \in Envs /\ Started

\* ------------------------------------------------------- submit_contact()
\* A validation loop that walks the fields in another order.
requiredReversed == <<"message", "email", "name">>

\* The order in which the required fields are validated.
required == <<"name", "email", "message">>

\* `data.get(field, '').strip()` of a value that is not a string.
AttributeError == "AttributeError: object has no attribute 'strip'"
\* `data.get` of a body that is not a JSON object (or get_json raising).
BodyError == "AttributeError: object has no attribute 'get'"
\* email_thread.start() when no thread can be started.
ThreadError == "RuntimeError: can't start new thread"

\* The validation loop from field number i on: the first required field that
\* is blank rejects the request, a value without .strip() raises.
RECURSIVE ValidateFrom(_, _)
ValidateFrom(data, i) ==
    IF i > Len(required) THEN [kind |-> "pass", field |-> "", exc |-> ""]
    ELSE LET value == Get(data, required[i], JStr(EmptyText)) IN
         IF value.t # "str"
         THEN [kind |-> "raise", field |-> required[i], exc |-> AttributeError]
         ELSE IF Strip(value.v) = EmptyText
         THEN [kind |-> "reject", field |-> required[i], exc |-> ""]
         ELSE ValidateFrom(data, i + 1)

Validate(body) ==
    IF body.kind # "object"
    THEN [kind |-> "raise", field |-> "", exc |-> BodyError]
    ELSE ValidateFrom(body.data, 1)

\* A rejection that does not return: the handler falls through to the save.
ReachesSaveDespiteRejection(v) == v.kind # "raise"

\* Whether the handler goes on to the save and the email after validation:
\* a rejected request has returned, a raised exception has left the try body.
ReachesSave(v) == v.kind = "pass"

\* Contact(name=data.get('name', '').strip(), ...): every field must have
\* .strip(), or the constructor call raises inside the inner try.
Constructible(data) == \A f \in Fields : Get(data, f, JStr(EmptyText)).t = "str"

Column(data, f) == Strip(Get(data, f, JStr(EmptyText)).v)

NewContact(data, id, at, r) ==
    [id |-> id,
     name |-> Column(data, "name"),
     email |-> Column(data, "email"),
     phone |-> Column(data, "phone"),
     company |-> Column(data, "company"),
     service |-> Column(data, "service"),
     message |-> Column(data, "message"),
     submitted_at |-> at,
     req |-> r]

\* The outcome of the inner try: the row is committed, or the exception (from
\* the constructor or from the database) is caught and the session rolled back.
SaveOutcome(data, dbOutcome) ==
    IF Constructible(data) /\ dbOutcome = "ok" THEN "saved" ELSE "failed"

\* A failed write whose row stays visible (no rollback).
StoreWithoutRollback(st, row, outcome) == st \cup {row}

\* The table after add + commit, or after rollback.
StoreAfterWrite(st, row, outcome) == IF outcome = "saved" THEN st \cup {row} ELSE st

\* A primary key that is handed out again.
PrimaryKeyReused(id, outcome) == id

\* The primary key the next insert gets.
PrimaryKeyAfter(id, outcome) == IF outcome = "saved" THEN id + 1 ELSE id

\* How an f-string shows a value.
Format(value) == IF value.t = "str" THEN value.v ELSE NoneText

\* Python truthiness of a JSON value.
Truthy(value) == value.t = "str" /\ value.v # EmptyText

\* An email built from the trimmed values.
EmailFieldTrimmed(data, f) ==
    LET value == Get(data, f, JStr(NA)) IN
    IF value.t # "str" THEN (IF f \in OptionalFields THEN NA ELSE NoneText)
    ELSE IF f \in OptionalFields /\ Strip(value.v) = EmptyText THEN NA
    ELSE Strip(value.v)

\* {data.get(f, 'N/A')} for the required fields, {data.get(f, 'N/A') or 'N/A'}
\* for the optional ones.
EmailField(data, f) ==
    LET value == Get(data, f, JStr(NA)) IN
    IF f \in OptionalFields /\ ~Truthy(value) THEN NA ELSE Format(value)

EmailBody(data) == [f \in Fields |-> EmailField(data, f)]

EmailSubject(data, unique_id) ==
    [name |-> Format(Get(data, "name", JStr(Unknown))), unique_id |-> unique_id]

NewThread(r, data, unique_id) ==
    [req |-> r,
     subject |-> EmailSubject(data, unique_id),
     recipient |-> Getenv(env, "NOTIFY_EMAIL", "sales@dbmgroups.com"),
     body |-> EmailBody(data),
     status |-> "started"]

Rejected(field) ==
    [status |-> 400, success |-> FALSE, message |-> RequiredMessage(field)]

Accepted ==
    [status |-> 200, success |-> TRUE,
     message |-> "Thank you! Your message has been sent successfully."]

\* An outer except that answers with the exception's text.
ServerErrorWithDetail(exc) == [status |-> 500, success |-> FALSE, message |-> exc]

\* The outer except: the exception goes to the log, not to the caller.
ServerError(exc) ==
    [status |-> 500, success |-> FALSE, message |-> "Server error. Please try again later."]

\* Lines 100-152: from get_json to email_thread.start().
Handle(r, body, dbOutcome, threadStarts, unique_id) ==
    /\ payload' = [payload EXCEPT ![r] = body]
    /\ LET v == Validate(body)
           outcome == SaveOutcome(body.data, dbOutcome)
           row == NewContact(body.data, nextId, now, r)
       IN  /\ IF ReachesSave(v)
              THEN /\ store' = StoreAfterWrite(store, row, outcome)
                   /\ nextId' = PrimaryKeyAfter(nextId, outcome)
                   /\ dbLog' = [dbLog EXCEPT ![r] = outcome]
                   /\ threads' = IF threadStarts
                                 THEN Append(threads, NewThread(r, body.data, unique_id))
                                 ELSE threads
              ELSE UNCHANGED <<store, nextId, dbLog, threads>>
           /\ IF v.kind = "raise"
              THEN /\ resp' = [resp EXCEPT ![r] = ServerError(v.exc)]
                   /\ pc' = [pc EXCEPT ![r] = "done"]
              ELSE IF v.kind = "reject"
              THEN /\ resp' = [resp EXCEPT ![r] = Rejected(v.field)]
                   /\ pc' = [pc EXCEPT ![r] = "done"]
              ELSE IF ~threadStarts
              THEN /\ resp' = [resp EXCEPT ![r] = ServerError(ThreadError)]
                   /\ pc' = [pc EXCEPT ![r] = "done"]
              ELSE /\ resp' = resp
                   /\ pc' = [pc EXCEPT ![r] = "started"]
    /\ UNCHANGED <<env, now, listing>>

\* The threads started for request r.
ThreadsOf(r) == {i \in DOMAIN threads : threads[i].req = r}

\* Request r arrives with one of `bodies`; the database commit succeeds or
\* fails, the thread starts or cannot be started.
SubmitContact(r, bodies, unique_ids) ==
    /\ pc[r] = "idle"
    /\ \A q \in Requests : q < r => pc[q] # "idle"    \* requests are numbered as they arrive
    /\ \E body \in bodies, dbOutcome \in {"ok", "fail"},
          threadStarts \in BOOLEAN, unique_id \in unique_ids :
            Handle(r, body, dbOutcome, threadStarts, unique_id)

\* A handler that joins its thread before it returns.
CanReturnAfterJoin(r) ==
    pc[r] = "started" /\ \A i \in ThreadsOf(r) : threads[i].status # "started"

\* Line 154 is reached as soon as start() has returned: nothing joins the thread.
CanReturn(r) == pc[r] = "started"

\* A response that reports the email's failure.
SuccessResponseAfterSend(r) ==
    IF \E i \in ThreadsOf(r) : threads[i].status \in {"http_error", "failed", "skipped"}
    THEN [status |-> 200, success |-> FALSE, message |-> "Saved, but the email failed."]
    ELSE Accepted

\* Line 154: the response does not look at the thread.
SuccessResponse(r) == Accepted

Return(r) ==
    /\ CanReturn(r)
    /\ resp' = [resp EXCEPT ![r] = SuccessResponse(r)]
    /\ pc' = [pc EXCEPT ![r] = "done"]
    /\ UNCHANGED <<env, now, store, nextId, payload, dbLog, threads, listing>>

\* ------------------------------------------------- send_email_background()
\* The whole thread body: without an API key the email is skipped; otherwise
\* urlopen (timeout 10 s) succeeds, answers an HTTP error, or fails otherwise
\* (a timeout included).  Every outcome is logged and none is raised.
SendOutcomes == {"sent", "http_error", "failed"}

SendEmailBackground(i, outcome) ==
    /\ i \in DOMAIN threads
    /\ threads[i].status = "started"
    /\ threads' = [threads EXCEPT ![i].status =
                      IF Getenv(env, "RESEND_API_KEY", "") = "" THEN "skipped" ELSE outcome]
    /\ UNCHANGED <<env, now, store, nextId, payload, pc, resp, dbLog, listing>>

\* ---------------------------------------------------------- list_contacts()
\* ORDER BY submitted_at ASC.
OrderByAscending(a, b) == a.submitted_at =< b.submitted_at

\* ORDER BY submitted_at DESC: row a may come before row b.
OrderBy(a, b) == a.submitted_at >= b.submitted_at

\* datetime.isoformat() of a clock value, and the clock value it denotes.
IsoFormat(at) == <<"1970-01-01T00:00:", at>>
FromIso(text) == text[2]

ToJson(c) ==
    [id |-> c.id, name |-> c.name, email |-> c.email, phone |-> c.phone,
     company |-> c.company, service |-> c.service, message |-> c.message,
     submitted_at |-> IsoFormat(c.submitted_at)]

\* Every order the database may return the rows in: rows with equal
\* submitted_at come in any order.
QueryAll(st) ==
    LET n == Cardinality(st) IN
    {q \in [1..n -> st] :
        /\ \A i, j \in 1..n : i # j => q[i] # q[j]
        /\ \A i \in 1..n : \A j \in 1..n : i < j => OrderBy(q[i], q[j])}

ListContacts ==
    /\ \E q \in QueryAll(store) : listing' = [i \in DOMAIN q |-> ToJson(q[i])]
    /\ UNCHANGED <<env, now, store, nextId, payload, pc, resp, dbLog, threads>>

\* ------------------------------------------------------------------- clock
Tick ==
    /\ now < MaxClock
    /\ now' = now + 1
    /\ UNCHANGED <<env, store, nextId, payload, pc, resp, dbLog, threads, listing>>

\* Concurrent clients.
Next ==
    \/ \E r \in Requests : SubmitContact(r, FewBodies, {"A1B2"})
    \/ \E r \in Requests : Return(r)
    \/ \E i \in Requests, outcome \in SendOutcomes : SendEmailBackground(i, outcome)
    \/ ListContacts
    \/ Tick

Spec == Init /\ [][Next]_vars

\* One request, with every body and every environment.
NextOne ==
    \/ SubmitContact(1, Bodies, UniqueIds)
    \/ Return(1)
    \/ \E outcome \in SendOutcomes : SendEmailBackground(1, outcome)
    \/ ListContacts
    \/ Tick

SpecOne == InitOne /\ [][NextOne]_vars

\* ============================================================== properties
\* What the properties say about a payload, stated without the handler's
\* own operators.
FieldOrder == <<"name", "email", "message">>

IsBlank(text) == \A i \in 1..Len(text) : text[i] = SP

\* t is s without its leading and trailing spaces.
IsTrimOf(t, s) ==
    /\ t = EmptyText \/ (t[1] # SP /\ t[Len(t)] # SP)
    /\ \E i, j \in 0..Len(s) :
        /\ i + j =< Len(s)
        /\ t = SubSeq(s, i + 1, Len(s) - j)
        /\ \A k \in 1..i : s[k] = SP
        /\ \A k \in (Len(s) - j + 1)..Len(s) : s[k] = SP

MissingOrBlank(data, f) ==
    f \notin DOMAIN data \/ (data[f].t = "str" /\ IsBlank(data[f].v))

NotAString(data, f) == f \in DOMAIN data /\ data[f].t # "str"

Least(S) == IF S = {} THEN 0 ELSE CHOOSE i \in S : \A j \in S : i =< j

\* The first required field that is missing or blank (0: none).
FirstMissing(data) == Least({i \in 1..3 : MissingOrBlank(data, FieldOrder[i])})

\* The first required field that is not a non-blank string (0: none).
FirstBad(data) ==
    Least({i \in 1..3 : MissingOrBlank(data, FieldOrder[i]) \/ NotAString(data, FieldOrder[i])})

ValidPayload(body) == body.kind = "object" /\ FirstBad(body.data) = 0

IsRejection(response, field) ==
    /\ response.status = 400
    /\ response.success = FALSE
    /\ response.message = "\"" \o field \o "\" is required."

IsSuccess(response) == response.status = 200 /\ response.success = TRUE

GenericError ==
    [status |-> 500, success |-> FALSE, message |-> "Server error. Please try again later."]

RowsOf(r) == {c \in store : c.req = r}

\* C1 as stated: whenever name, email or message is missing or blank, the
\* answer is 400 and names the first such field in the order name, email,
\* message.
C1_FirstMissingRejected ==
    \A r \in Requests :
        (pc[r] = "done" /\ payload[r].kind = "object" /\ FirstMissing(payload[r].data) # 0)
            => IsRejection(resp[r], FieldOrder[FirstMissing(payload[r].data)])

\* C1 amended: the answer is 400 naming the first missing or blank field
\* provided every required field before it is a string; a required field
\* that is not a string and comes before it ends the request in 500 instead.
C1_FirstMissingRejectedAfterStrings ==
    \A r \in Requests :
        (/\ pc[r] = "done"
         /\ payload[r].kind = "object"
         /\ FirstMissing(payload[r].data) # 0
         /\ FirstBad(payload[r].data) = FirstMissing(payload[r].data))
            => IsRejection(resp[r], FieldOrder[FirstMissing(payload[r].data)])

\* C1 witness: a padded name, no email and a blank message, answered with
\* the rejection naming email.
C1_Witness ==
    \E r \in Requests :
        /\ pc[r] = "done"
        /\ payload[r].kind = "object"
        /\ "name" \in DOMAIN payload[r].data
        /\ payload[r].data["name"] = Padded("a")
        /\ "email" \notin DOMAIN payload[r].data
        /\ "message" \in DOMAIN payload[r].data
        /\ payload[r].data["message"] = JStr(BlankText)
        /\ IsRejection(resp[r], "email")

\* C2: a request answered 400 leaves the table, the primary-key counter and
\* the list of started email threads as they were.
C2_RejectionHasNoSideEffects ==
    [][\A r \in Requests :
          (pc[r] = "idle" /\ pc'[r] = "done" /\ resp'[r].status = 400)
              => (store' = store /\ nextId' = nextId /\ threads' = threads)]_vars

\* C2 witness: a request was rejected after an earlier one had been saved
\* and had started its email thread; the rejected one has no row, no thread.
C2_Witness ==
    \E r, q \in Requests :
        /\ q < r
        /\ resp[r].status = 400
        /\ RowsOf(q) # {} /\ ThreadsOf(q) # {}
        /\ RowsOf(r) = {} /\ ThreadsOf(r) = {}

\* C3 as stated: every valid payload is answered 200 with success=true.
C3_ValidAlwaysAccepted ==
    \A r \in Requests :
        (pc[r] = "done" /\ ValidPayload(payload[r])) => IsSuccess(resp[r])

\* C3 amended: every valid payload whose email thread was started is
\* answered 200 with success=true, whatever the thread's outcome (skipped
\* for want of an API key, HTTP error, any other failure, or sent) and
\* whether it ends before or after the response.
C3_AcceptedWhateverTheNotifierDoes ==
    \A r \in Requests :
        (pc[r] = "done" /\ ValidPayload(payload[r]) /\ ThreadsOf(r) # {})
            => resp[r] = [status |-> 200, success |-> TRUE,
                          message |-> "Thank you! Your message has been sent successfully."]

\* C3 witness: a valid request answered 200 whose email failed.
C3_Witness ==
    \E r \in Requests :
        /\ pc[r] = "done"
        /\ ValidPayload(payload[r])
        /\ IsSuccess(resp[r])
        /\ \E i \in ThreadsOf(r) : threads[i].status \in {"http_error", "failed"}

\* C4 as stated: after a failed store write the request has no row, has
\* started its notification and is answered 200 with success=true.
C4_FailedWriteStillAccepted ==
    \A r \in Requests :
        dbLog[r] = "failed"
            => /\ RowsOf(r) = {}
               /\ ThreadsOf(r) # {}
               /\ pc[r] = "done" => IsSuccess(resp[r])

\* C4 amended: after a failed store write the request has no row; if its
\* email thread could be started it is answered 200 with success=true, and
\* if the thread could not be started it is answered with the generic 500
\* and no notification runs.
C4_FailedWriteRolledBack ==
    \A r \in Requests :
        dbLog[r] = "failed"
            => /\ RowsOf(r) = {}
               /\ pc[r] # "idle"
               /\ IF ThreadsOf(r) # {}
                  THEN pc[r] = "done" => IsSuccess(resp[r])
                  ELSE pc[r] = "done" /\ resp[r] = GenericError

\* C4 witness: a request whose database commit failed (its fields were all
\* strings), answered 200, with its thread started, while another request's
\* row is in the table.
C4_Witness ==
    \E r \in Requests :
        /\ dbLog[r] = "failed"
        /\ payload[r] = ValidBody
        /\ pc[r] = "done" /\ IsSuccess(resp[r])
        /\ ThreadsOf(r) # {}
        /\ RowsOf(r) = {}
        /\ store # {}

\* C5: every row's six string columns are the trimmed values of the payload
\* of the request that wrote it (an absent key giving the empty string), and
\* its name, email and message are not empty.
C5_RowsAreTrimmedPayloads ==
    \A c \in store :
        /\ c.req \in Requests
        /\ payload[c.req].kind = "object"
        /\ \A f \in Fields :
            LET data == payload[c.req].data IN
            IF f \in DOMAIN data
            THEN data[f].t = "str" /\ IsTrimOf(c[f], data[f].v)
            ELSE c[f] = EmptyText
        /\ \A f \in RequiredFields : c[f] # EmptyText

\* C5 witness: a row written from padded values, beside a rejected request
\* and nothing written for it.
C5_Witness ==
    \E c \in store : \E r \in Requests :
        /\ payload[c.req].data["name"] = Padded("a")
        /\ c.name = <<"a">>
        /\ c.phone = <<"b">>
        /\ c.company = EmptyText
        /\ r # c.req
        /\ resp[r].status = 400
        /\ RowsOf(r) = {}

Descending(list) ==
    \A i \in 1..(Len(list) - 1) :
        FromIso(list[i].submitted_at) >= FromIso(list[i + 1].submitted_at)

StrictlyDescending(list) ==
    \A i \in 1..(Len(list) - 1) :
        FromIso(list[i].submitted_at) > FromIso(list[i + 1].submitted_at)

ListsEveryRow(list, st) ==
    /\ Len(list) = Cardinality(st)
    /\ {list[i].id : i \in DOMAIN list} = {c.id : c \in st}

\* C6 as stated: GET /contacts answers with every row, in strictly
\* descending submitted_at order.
C6_StrictlyDescending ==
    [][listing' # listing
          => (ListsEveryRow(listing', store') /\ StrictlyDescending(listing'))]_vars

\* C6 amended: GET /contacts answers with every row, in descending
\* submitted_at order; rows written at the same clock value are adjacent, so
\* the order is not strict.
C6_Descending ==
    [][listing' # listing
          => (ListsEveryRow(listing', store') /\ Descending(listing'))]_vars

\* C6 witness: a listing of two rows written at different clock values.
C6_Witness ==
    /\ Len(listing) = 2
    /\ FromIso(listing[1].submitted_at) > FromIso(listing[2].submitted_at)

\* C7: no step removes or changes a row, ids are unique, and any two saved
\* requests (identical payloads included) have rows with different ids.
C7_CreateOnlyDistinctIds ==
    [][/\ store \subseteq store'
       /\ \A c, d \in store' : c.id = d.id => c = d
       /\ \A r, q \in Requests :
            (r # q /\ dbLog'[r] = "saved" /\ dbLog'[q] = "saved")
                => \E c \in store', d \in store' :
                      c.req = r /\ d.req = q /\ c.id # d.id]_vars

\* C7 witness: two saved requests with the same payload, two rows.
C7_Witness ==
    \E r, q \in Requests :
        /\ r # q
        /\ payload[r] = payload[q]
        /\ dbLog[r] = "saved" /\ dbLog[q] = "saved"
        /\ Cardinality(store) = 2

\* C8: every answered request got a 400 rejection naming a required field,
\* the 200 success, or the generic 500; and a body that is no JSON object, a
\* required field that is not a string (reached before any missing one), or
\* a thread that could not be started for a valid payload, gets the generic
\* 500, whose message says nothing about the exception.
C8_OtherFailuresAreGeneric500 ==
    \A r \in Requests :
        pc[r] = "done"
            => /\ \/ \E f \in RequiredFields : IsRejection(resp[r], f)
                  \/ IsSuccess(resp[r])
                  \/ resp[r] = GenericError
               /\ payload[r].kind # "object" => resp[r] = GenericError
               /\ (/\ payload[r].kind = "object"
                   /\ FirstBad(payload[r].data) # 0
                   /\ NotAString(payload[r].data, FieldOrder[FirstBad(payload[r].data)]))
                     => resp[r] = GenericError
               /\ (ValidPayload(payload[r]) /\ ThreadsOf(r) = {}) => resp[r] = GenericError

\* C8 witness: a null email after a valid name, answered with the generic 500.
C8_Witness ==
    \E r \in Requests :
        /\ pc[r] = "done"
        /\ payload[r].kind = "object"
        /\ FirstBad(payload[r].data) = 2
        /\ NotAString(payload[r].data, "email")
        /\ resp[r] = GenericError

ConfiguredRecipient ==
    IF "NOTIFY_EMAIL" \in DOMAIN env THEN env["NOTIFY_EMAIL"] ELSE "sales@dbmgroups.com"

\* What the email shows for a field when it is built from the trimmed values.
ShownTrimmed(data, f, shown) ==
    (f \in DOMAIN data /\ data[f].t = "str" /\ ~IsBlank(data[f].v))
        => IsTrimOf(shown, data[f].v)

\* What the email shows for a field when it is built from the payload as sent.
ShownRaw(data, f, shown) ==
    IF f \in DOMAIN data /\ data[f].t = "str" /\ data[f].v # EmptyText
    THEN shown = data[f].v
    ELSE shown = NA

\* C9 as stated, its second half: for every request that passes validation
\* the notification goes to the configured recipient and its subject and
\* body are built from the trimmed fields.
C9_NotificationFromTrimmedFields ==
    \A r \in Requests :
        (pc[r] # "idle" /\ ValidPayload(payload[r]))
            => \A i \in ThreadsOf(r) :
                    /\ threads[i].recipient = ConfiguredRecipient
                    /\ ShownTrimmed(payload[r].data, "name", threads[i].subject.name)
                    /\ \A f \in Fields : ShownTrimmed(payload[r].data, f, threads[i].body[f])

\* C9 amended: every request that passes validation and whose thread can be
\* started starts exactly one email thread, to the configured recipient,
\* whether or not the row was saved, with subject and body built from the
\* payload as sent (untrimmed; N/A for an optional field that is absent,
\* empty or null); when the thread cannot be started there is none and the
\* answer is the generic 500.
C9_OneNotificationFromPayload ==
    \A r \in Requests :
        (pc[r] # "idle" /\ ValidPayload(payload[r]))
            => \/ ThreadsOf(r) = {} /\ pc[r] = "done" /\ resp[r] = GenericError
               \/ /\ Cardinality(ThreadsOf(r)) = 1
                  /\ \A i \in ThreadsOf(r) :
                       /\ threads[i].recipient = ConfiguredRecipient
                       /\ ShownRaw(payload[r].data, "name", threads[i].subject.name)
                       /\ \A f \in Fields : ShownRaw(payload[r].data, f, threads[i].body[f])

\* C9 witness: a thread started for a request whose row was not saved, its
\* body showing the padded name and phone as sent, to the recipient set in
\* the environment.
C9_Witness ==
    \E r \in Requests : \E i \in ThreadsOf(r) :
        /\ dbLog[r] = "failed"
        /\ threads[i].body["name"] = <<SP, "a", SP>>
        /\ threads[i].body["phone"] = <<SP, "b", SP>>
        /\ threads[i].body["company"] = NA
        /\ threads[i].recipient = "ops@example.com"

\* C10: once the thread is started the handler can return at once, whatever
\* state the thread is in: returning is never blocked on the notifier.
C10_ReturnNeverWaits ==
    \A r \in Requests : pc[r] = "started" => ENABLED Return(r)

\* C10 witness: the first request has its 200 while its email is still
\* unsent, and the later request's email is already sent although that
\* request has not returned yet.
C10_Witness ==
    \E r, q \in Requests : \E i \in ThreadsOf(r) : \E j \in ThreadsOf(q) :
        /\ r < q
        /\ pc[r] = "done" /\ IsSuccess(resp[r])
        /\ threads[i].status = "started"
        /\ threads[j].status = "sent"
        /\ pc[q] = "started"

====
